---- MODULE Spec2Model ----
(***************************************************************************)
(* Book catalogue of task_01.py: BookValidator, BookConverter,             *)
(* BookRepository, LibraryService and ReportService.                       *)
(*                                                                         *)
(* Python values are records [t, s, n, e, m]:                              *)
(*   t  the type: "absent" (the key is not in the dict), "none", "str",    *)
(*      "int", "float", "dec" (decimal.Decimal);                           *)
(*   s  the text of a str;                                                 *)
(*   n, e  a finite number n / 10^e (e = 0 for an int); for a float the    *)
(*      pair is the shortest repr of the float ("9.9", "5.0"), for a       *)
(*      Decimal it is the coefficient and the number of decimal places;    *)
(*   m  the magnitude: "fin" a finite number as above; "huge" beyond the   *)
(*      range of a double (an int >= 2^1024, a Decimal such as 1E+400),    *)
(*      "tiny" a Decimal below the smallest double (1E-400), "digits" the  *)
(*      Decimal made of the digits of a huge int, "inf" and "nan" the      *)
(*      floats (and the Decimals parsed from their text); for these n is   *)
(*      the sign. The huge int of the model is 10^400.                     *)
(* A Python bool is an int (True == 1, False == 0) in every operation of   *)
(* this program, so the int values 1 and 0 stand for it.                   *)
(***************************************************************************)
EXTENDS Integers, Sequences, FiniteSets, TLC

VARIABLES
    raw,        \* the raw record (BookData) handed to validate / from_json
    book,       \* the Book handed to to_json
    vres,       \* outcome of the last validate(raw)
    cres,       \* outcome of the last from_json(raw)
    viaToJson,  \* ghost: raw is the value to_json(book) returned
    books,      \* BookRepository.books
    origin,     \* ghost: origin[i] is the entry books[i] was converted from
    okInput,    \* ghost: the raw data of the last load that completed
    lastOp,     \* the last operation
    status,     \* "ok", or the exception the last operation raised
    failedOn,   \* ghost: the entries whose processing raised in the last load
    ret,        \* the list the last load_book / get_books returned
    console,    \* what get_report_on_console printed
    written     \* the data get_report_file handed to the writer

vars == <<raw, book, vres, cres, viaToJson, books, origin, okInput,
          lastOp, status, failedOn, ret, console, written>>

pureVars == <<raw, book, vres, cres, viaToJson>>
repoVars == <<books, origin, okInput, lastOp, status, failedOn,
              ret, console, written>>

-----------------------------------------------------------------------------
(* Bounds of the model *)

\* a raw record differs from the well-formed record Base in at most this many fields
MaxDeviations == 3
\* the loader returns at most this many entries
MaxEntries == 2

-----------------------------------------------------------------------------
(* Python values *)

Val(t, s, n, e, m) == [t |-> t, s |-> s, n |-> n, e |-> e, m |-> m]

Absent  == Val("absent", "", 0, 0, "fin")
NoneV   == Val("none", "", 0, 0, "fin")
Str(s)  == Val("str", s, 0, 0, "fin")
IntV(n) == Val("int", "", n, 0, "fin")
BigInt  == Val("int", "", 1, 0, "huge")
Flt(n, e) == Val("float", "", n, e, "fin")
FltInf  == Val("float", "", 1, 0, "inf")
FltNaN  == Val("float", "", 1, 0, "nan")
Dec(n, e) == Val("dec", "", n, e, "fin")
DecTiny == Val("dec", "", 1, 0, "tiny")
DecHuge == Val("dec", "", 1, 0, "huge")
DecDigits == Val("dec", "", 1, 0, "digits")
DecInf  == Val("dec", "", 1, 0, "inf")
DecNaN  == Val("dec", "", 1, 0, "nan")

\* the outcome of a call: the value returned, or the exception raised
Ok(v)       == [exc |-> "", val |-> v]
Raise(x, v) == [exc |-> x, val |-> v]

RECURSIVE Pow10(_)
Pow10(e) == IF e = 0 THEN 1 ELSE 10 * Pow10(e - 1)

\* -(-n // d): Python's int() truncates toward zero
Trunc(n, e) == IF n >= 0 THEN n \div Pow10(e) ELSE -((-n) \div Pow10(e))

\* the shortest repr of the double n / 10^e: no trailing zeros, one decimal at least
RECURSIVE FloatRepr(_, _)
FloatRepr(n, e) ==
    IF e = 0 THEN Flt(n * 10, 1)
    ELSE IF e > 1 /\ n % 10 = 0 THEN FloatRepr(n \div 10, e - 1)
    ELSE Flt(n, e)

\* bool(v), as `not data[field]` evaluates it
Truthy(v) ==
    CASE v.t = "none" -> FALSE
      [] v.t = "str" -> v.s # ""
      [] v.t \in {"int", "float", "dec"} -> ~(v.m = "fin" /\ v.n = 0)
      [] OTHER -> FALSE

\* float(v) for the numeric types
PyFloat(v) ==
    CASE v.t = "int" /\ v.m = "fin" -> Ok(FloatRepr(v.n, 0))
      [] v.t = "int" /\ v.m = "huge" -> Raise("OverflowError", FltNaN)
      [] v.t = "float" -> Ok(v)
      [] v.t = "dec" /\ v.m = "fin" -> Ok(FloatRepr(v.n, v.e))
      [] v.t = "dec" /\ v.m = "tiny" -> Ok(Flt(0, 1))
      [] v.t = "dec" /\ v.m \in {"huge", "digits", "inf"} ->
            Ok(Val("float", "", v.n, 0, "inf"))
      [] v.t = "dec" /\ v.m = "nan" -> Ok(FltNaN)
      [] OTHER -> Raise("TypeError", FltNaN)

\* x > 0.0 for a float x
FloatPositive(x) ==
    CASE x.m = "fin" -> x.n > 0
      [] x.m = "inf" -> x.n > 0
      [] OTHER -> FALSE

\* left <= v <= right for an int v and small ints left, right
IntBetween(v, left, right) ==
    IF v.m = "fin" THEN left <= v.n /\ v.n <= right ELSE FALSE

-----------------------------------------------------------------------------
(* BookCategory *)

BookCategory == <<"UNKNOWN", "FICTION", "NON_FICTION", "SCIENCE", "FANTASY", "SELF_HELP">>

CategoryValue(name) ==
    CASE name = "UNKNOWN" -> "Unknown"
      [] name = "FICTION" -> "Fiction"
      [] name = "NON_FICTION" -> "Non-fiction"
      [] name = "SCIENCE" -> "Science"
      [] name = "FANTASY" -> "Fantasy"
      [] name = "SELF_HELP" -> "Self-help"

CategoryNames == {BookCategory[i] : i \in DOMAIN BookCategory}

\* [c.value for c in BookCategory]
CategoryValues == {CategoryValue(c) : c \in CategoryNames}

-----------------------------------------------------------------------------
(* Validator *)

MinYear == 1900
MaxYear == 2025

validate_fields == <<"title", "desc", "author", "year", "pages", "price", "category">>

HasKey(data, key) == data[key].t # "absent"

is_possitive_number(n) ==
    LET f == PyFloat(n)
    IN  IF f.exc # "" THEN Raise(f.exc, FALSE) ELSE Ok(FloatPositive(f.val))

is_between(n, left, right) == IntBetween(n, left, right)

isinstance_int(v) == v.t = "int"

isinstance_number(v) == v.t \in {"dec", "float", "int"}

\* mutant of category_in_values: the names of the members instead of their values
category_in_names(v) == v.t = "str" /\ v.s \in CategoryNames

\* data['category'] in [c.value for c in BookCategory]
category_in_values(v) == v.t = "str" /\ v.s \in CategoryValues

\* one check after another: the first outcome that is not "passed" (a `return False`
\* or an exception) ends the call
AndThen(outcome, rest) == IF outcome # Ok(TRUE) THEN outcome ELSE rest

\* data[key] raises KeyError when the key is missing
Lookup(data, key, outcome) ==
    IF HasKey(data, key) THEN outcome ELSE Raise("KeyError", FALSE)

\* the checks of one pass of the loop that follow the check of `field`
validate_checks(data) ==
    AndThen(Lookup(data, "year", Ok(isinstance_int(data.year))),
    AndThen(Ok(is_between(data.year, MinYear, MaxYear)),
    AndThen(Lookup(data, "pages", Ok(isinstance_int(data.pages))),
    AndThen(is_possitive_number(data.pages),
    AndThen(Lookup(data, "price", Ok(isinstance_number(data.price))),
    AndThen(is_possitive_number(data.price),
            Lookup(data, "category", Ok(category_in_values(data.category)))))))))

\* the loop over validate_fields, from its i-th pass on
RECURSIVE validate_from(_, _)
validate_from(data, i) ==
    IF i > Len(validate_fields) THEN Ok(TRUE)
    ELSE AndThen(Ok(HasKey(data, validate_fields[i]) /\ Truthy(data[validate_fields[i]])),
         AndThen(validate_checks(data),
                 validate_from(data, i + 1)))

validate(data) == validate_from(data, 1)

-----------------------------------------------------------------------------
(* Conversions of Python values *)

RECURSIVE Zeros(_)
Zeros(k) == IF k = 0 THEN "" ELSE "0" \o Zeros(k - 1)

RECURSIVE DigitCount(_)
DigitCount(k) == IF k < 10 THEN 1 ELSE 1 + DigitCount(k \div 10)

\* the text of n / 10^e with exactly e decimals: "2010", "9.90", "-1.0"
FormatNumber(n, e) ==
    LET a == IF n < 0 THEN -n ELSE n
        frac == a % Pow10(e)
    IN  (IF n < 0 THEN "-" ELSE "")
        \o ToString(a \div Pow10(e))
        \o (IF e = 0 THEN "" ELSE "." \o Zeros(e - DigitCount(frac)) \o ToString(frac))

Zeros100 ==
    "00000000000000000000000000000000000000000000000000"
    \o "00000000000000000000000000000000000000000000000000"

\* the digits of 10^400
BigIntText == "1" \o Zeros100 \o Zeros100 \o Zeros100 \o Zeros100

\* str(v)
PyStr(v) ==
    CASE v.t = "str" -> v
      [] v.t = "none" -> Str("None")
      [] v.t \in {"int", "float", "dec"} /\ v.m = "fin" -> Str(FormatNumber(v.n, v.e))
      [] v.m = "huge" /\ v.t = "int" -> Str(BigIntText)
      [] v.m = "digits" /\ v.t = "dec" -> Str(BigIntText)
      [] v.t = "float" /\ v.m = "inf" -> Str("inf")
      [] v.t = "float" /\ v.m = "nan" -> Str("nan")
      [] v.t = "dec" /\ v.m = "tiny" -> Str("1E-400")
      [] v.t = "dec" /\ v.m = "huge" -> Str("1E+400")
      [] v.t = "dec" /\ v.m = "inf" -> Str("Infinity")
      [] v.t = "dec" /\ v.m = "nan" -> Str("NaN")

\* the numerals a text of the model can spell, as <<n, e>>
Numerals == {<<2010, 0>>, <<100, 0>>, <<999, 2>>}

IsNumeral(s) == \E c \in Numerals : FormatNumber(c[1], c[2]) = s

NumeralOf(s) == CHOOSE c \in Numerals : FormatNumber(c[1], c[2]) = s

\* int(v)
PyInt(v) ==
    CASE v.t = "int" -> Ok(v)
      [] v.t = "str" ->
            IF IsNumeral(v.s) /\ NumeralOf(v.s)[2] = 0
            THEN Ok(IntV(NumeralOf(v.s)[1]))
            ELSE Raise("ValueError", NoneV)
      [] v.t \in {"float", "dec"} /\ v.m = "fin" -> Ok(IntV(Trunc(v.n, v.e)))
      [] v.t \in {"float", "dec"} /\ v.m = "inf" -> Raise("OverflowError", NoneV)
      [] v.t \in {"float", "dec"} /\ v.m = "nan" -> Raise("ValueError", NoneV)
      [] v.t = "dec" /\ v.m = "tiny" -> Ok(IntV(0))
      [] v.t = "dec" /\ v.m \in {"huge", "digits"} -> Ok(BigInt)
      [] v.t = "none" -> Raise("TypeError", NoneV)
      [] OTHER -> Raise("KeyError", NoneV)

\* Decimal(str(v))
PyDecimalOfStr(v) ==
    CASE v.t = "dec" -> Ok(v)
      [] v.t = "int" /\ v.m = "fin" -> Ok(Dec(v.n, 0))
      [] v.t = "int" /\ v.m = "huge" -> Ok(DecDigits)
      [] v.t = "float" /\ v.m = "fin" -> Ok(Dec(v.n, v.e))
      [] v.t = "float" /\ v.m = "inf" -> Ok(Val("dec", "", v.n, 0, "inf"))
      [] v.t = "float" /\ v.m = "nan" -> Ok(DecNaN)
      [] v.t = "str" ->
            IF IsNumeral(v.s)
            THEN Ok(Dec(NumeralOf(v.s)[1], NumeralOf(v.s)[2]))
            ELSE Raise("InvalidOperation", NoneV)
      [] v.t = "none" -> Raise("InvalidOperation", NoneV)
      [] OTHER -> Raise("KeyError", NoneV)

-----------------------------------------------------------------------------
(* Book and BookConverter *)

Book(title, desc, author, year, pages, price, category) ==
    [title |-> title, desc |-> desc, author |-> author, year |-> year,
     pages |-> pages, price |-> price, category |-> category]

NoBook == Book(Absent, Absent, Absent, Absent, Absent, Absent, "UNKNOWN")

\* the dict with none of the keys
EmptyRecord ==
    [title |-> Absent, desc |-> Absent, author |-> Absent, year |-> Absent,
     pages |-> Absent, price |-> Absent, category |-> Absent]

has_category(b, category) == b.category = category

is_betweeen(b, from_year, to_year) == IntBetween(b.year, from_year, to_year)

\* BookCategory(value): the member with that value; ValueError when there is none
CategoryOf(v) ==
    IF v.t = "str" /\ v.s \in CategoryValues
    THEN Ok(CHOOSE c \in CategoryNames : CategoryValue(c) = v.s)
    ELSE Raise("ValueError", "UNKNOWN")

\* the first exception among the outcomes, in order; "" when none raised
RECURSIVE FirstExc(_)
FirstExc(outs) ==
    IF outs = <<>> THEN ""
    ELSE IF Head(outs).exc # "" THEN Head(outs).exc
    ELSE FirstExc(Tail(outs))

\* data[key], converted: KeyError when the key is missing
Item(data, key, out) == IF HasKey(data, key) THEN out ELSE Raise("KeyError", NoneV)

\* Book(...) of the converted fields, unless one of the conversions raised
BuildBook(outs) ==
    IF FirstExc(outs) # "" THEN Raise(FirstExc(outs), NoBook)
    ELSE Ok(Book(outs[2].val, outs[3].val, outs[4].val, outs[5].val, outs[6].val,
                 outs[7].val, outs[1].val))

\* mutant of ParseCategory: no `except ValueError`
ParseCategoryNoExcept(data, parsed) == parsed

\* BookCategory(data['category']); except ValueError: the warning formats
\* data['title'], and the category is UNKNOWN
ParseCategory(data, parsed) ==
    IF parsed.exc = "" THEN parsed
    ELSE IF ~HasKey(data, "title") THEN Raise("KeyError", "UNKNOWN")
    ELSE Ok("UNKNOWN")

from_json(data) ==
    BuildBook(<<
        IF HasKey(data, "category") THEN ParseCategory(data, CategoryOf(data.category))
        ELSE Raise("KeyError", "UNKNOWN"),
        Item(data, "title", Ok(PyStr(data.title))),
        Item(data, "desc", Ok(PyStr(data.desc))),
        Item(data, "author", Ok(PyStr(data.author))),
        Item(data, "year", PyInt(data.year)),
        Item(data, "pages", PyInt(data.pages)),
        Item(data, "price", PyDecimalOfStr(data.price)) >>)

\* mutant of to_json: the category by its name, as to_dict does
to_json_name(data) ==
    [title |-> data.title, desc |-> data.desc, author |-> data.author,
     year |-> data.year, pages |-> data.pages,
     price |-> PyFloat(data.price).val,
     category |-> Str(data.category)]

to_json(data) ==
    [title |-> data.title, desc |-> data.desc, author |-> data.author,
     year |-> data.year, pages |-> data.pages,
     price |-> PyFloat(data.price).val,
     category |-> Str(CategoryValue(data.category))]

to_dict(b) ==
    [title |-> b.title, desc |-> b.desc, author |-> b.author,
     year |-> PyStr(b.year), pages |-> PyStr(b.pages), price |-> PyStr(b.price),
     category |-> Str(b.category)]

\* Book.__str__
BookStr(b) ==
    "Book(Title: " \o PyStr(b.title).s \o ", author: " \o PyStr(b.author).s
    \o ", year: " \o PyStr(b.year).s \o ", pages " \o PyStr(b.pages).s
    \o ", price: " \o PyStr(b.price).s \o ", category: " \o b.category

-----------------------------------------------------------------------------
(* BookRepository *)

\* the loop of _process_data from its i-th entry on; valid_book is the local list,
\* kept the entries it was built from, on the entry whose processing raised
RECURSIVE process_from(_, _, _, _)
RECURSIVE process_valid(_, _, _, _, _)
RECURSIVE process_entry(_, _, _, _, _)

\* book = self.converter.from_json(entry); `if book:` is true of every Book (the
\* class defines neither __bool__ nor __len__)
process_valid(raw_data, i, valid_book, kept, converted) ==
    IF converted.exc # ""
    THEN [exc |-> converted.exc, val |-> valid_book, kept |-> kept, on |-> <<raw_data[i]>>]
    ELSE process_from(raw_data, i + 1, Append(valid_book, converted.val),
                      Append(kept, raw_data[i]))

\* if self.validator.validate(entry): ... else: logging.error(...)
process_entry(raw_data, i, valid_book, kept, valid) ==
    IF valid.exc # ""
    THEN [exc |-> valid.exc, val |-> valid_book, kept |-> kept, on |-> <<raw_data[i]>>]
    ELSE IF valid.val
    THEN process_valid(raw_data, i, valid_book, kept, from_json(raw_data[i]))
    ELSE process_from(raw_data, i + 1, valid_book, kept)

process_from(raw_data, i, valid_book, kept) ==
    IF i > Len(raw_data)
    THEN [exc |-> "", val |-> valid_book, kept |-> kept, on |-> <<>>]
    ELSE process_entry(raw_data, i, valid_book, kept, validate(raw_data[i]))

process_data(raw_data) == process_from(raw_data, 1, <<>>, <<>>)

\* mutant of assign_books: the new books are added to the ones held
assign_books_extend(self_books, processed) ==
    IF processed.exc # ""
    THEN [exc |-> processed.exc, books |-> self_books, kept |-> <<>>, on |-> processed.on]
    ELSE [exc |-> "", books |-> self_books \o processed.val, kept |-> processed.kept,
          on |-> <<>>]

\* mutant of assign_books: self.books is filled entry by entry, so a load that raises
\* leaves the part built so far
assign_books_incremental(self_books, processed) ==
    [exc |-> processed.exc, books |-> processed.val, kept |-> processed.kept,
     on |-> processed.on]

\* self.books = self._process_data(raw_data): assigned once, after the call returned
assign_books(self_books, processed) ==
    IF processed.exc # ""
    THEN [exc |-> processed.exc, books |-> self_books, kept |-> <<>>, on |-> processed.on]
    ELSE [exc |-> "", books |-> processed.val, kept |-> processed.kept, on |-> <<>>]

\* load_book on a repository holding self_books, the reader's outcome being read
load_book(self_books, read) ==
    IF read.exc # ""
    THEN [exc |-> read.exc, books |-> self_books, kept |-> <<>>, on |-> <<>>]
    ELSE assign_books(self_books, process_data(read.val))

get_books(self_books) == self_books

-----------------------------------------------------------------------------
(* LibraryService *)

\* the arguments a condition_fn is called on
Held(self_books) == {self_books[i] : i \in DOMAIN self_books}

\* condition_fn, a Callable[[Book], bool], is a function on the books held
filter_books(self_books, condition_fn) ==
    SelectSeq(get_books(self_books), LAMBDA b : condition_fn[b])

filter_books_category(self_books, category) ==
    filter_books(self_books, [b \in Held(self_books) |-> has_category(b, category)])

\* mutant of count_books_year_range: the upper end excluded
count_books_year_range_open(self_books, year_from, year_to) ==
    Len(filter_books(self_books,
            [b \in Held(self_books) |-> is_betweeen(b, year_from, year_to - 1)]))

count_books_year_range(self_books, year_from, year_to) ==
    Len(filter_books(self_books,
            [b \in Held(self_books) |-> is_betweeen(b, year_from, year_to)]))

-----------------------------------------------------------------------------
(* ReportService *)

\* list(range(start, stop, step)) for step > 0
RECURSIVE Range(_, _, _)
Range(start, stop, step) ==
    IF start >= stop THEN <<>> ELSE <<start>> \o Range(start + step, stop, step)

RECURSIVE Flatten(_)
Flatten(ss) == IF ss = <<>> THEN <<>> ELSE Head(ss) \o Flatten(Tail(ss))

\* the lines get_report_on_console prints
get_report_on_console(self_books) ==
    Flatten([i \in DOMAIN BookCategory |->
        <<"BookCategory." \o BookCategory[i]>>
        \o [j \in DOMAIN filter_books_category(self_books, BookCategory[i]) |->
               BookStr(filter_books_category(self_books, BookCategory[i])[j])]])
    \o [k \in DOMAIN Range(2000, 2025, 5) |->
        LET start_year == Range(2000, 2025, 5)[k]
            end_year == start_year + 10
        IN  "Years : " \o ToString(start_year) \o " and " \o ToString(end_year) \o " : "
            \o ToString(count_books_year_range(self_books, start_year, end_year))]

\* the data get_report_file hands to the writer; a dict is the sequence of its items
get_report_file(self_books) ==
    [categories |->
        [i \in DOMAIN BookCategory |->
            [key |-> BookCategory[i],
             value |-> [j \in DOMAIN filter_books_category(self_books, BookCategory[i]) |->
                          to_dict(filter_books_category(self_books, BookCategory[i])[j])]]],
     years |->
        [k \in DOMAIN Range(2000, 2025, 5) |->
            LET start_year == Range(2000, 2025, 5)[k]
                end_year == start_year + 9
            IN  [key |-> ToString(start_year) \o "-" \o ToString(end_year),
                 value |-> count_books_year_range(self_books, start_year, end_year)]]]

NoData == [categories |-> <<>>, years |-> <<>>]

-----------------------------------------------------------------------------
(* Raw records *)

\* a well-formed entry
Base ==
    [title |-> Str("A"), desc |-> Str("d"), author |-> Str("x"), year |-> IntV(2010),
     pages |-> IntV(100), price |-> Flt(999, 2), category |-> Str("Science")]

TitleValues == {Absent, Str(""), Str("A"), Str("B"), IntV(7)}
DescValues == {Absent, NoneV, Str(""), Str("d")}
AuthorValues == {Absent, Str(""), Str("x")}
YearValues ==
    {Absent, NoneV, Str(""), Str("2010"), IntV(0), IntV(1899), IntV(1900), IntV(2010),
     IntV(2025), IntV(2026), BigInt, Flt(20100, 1)}
PagesValues ==
    {Absent, Str(""), Str("100"), IntV(0), IntV(-1), IntV(1), IntV(100), BigInt,
     Flt(1000, 1)}
PriceValues ==
    {Absent, NoneV, Str(""), Str("9.99"), IntV(0), IntV(-1), IntV(5), BigInt,
     Flt(0, 1), Flt(999, 2), Flt(-10, 1), FltNaN, FltInf,
     Dec(999, 2), Dec(990, 2), Dec(0, 0), Dec(-100, 2), DecTiny, DecHuge}
CategoryTexts ==
    {Absent, IntV(1), Str(""), Str("Mystery"), Str("FICTION"), Str("NON_FICTION")}
    \cup {Str(v) : v \in CategoryValues}

Deviations(r) == Cardinality({k \in DOMAIN Base : r[k] # Base[k]})

\* the entries the loader returns in the model
SampleEntries ==
    { Base,
      [Base EXCEPT !.title = Str("B"), !.year = IntV(2020), !.pages = IntV(1),
                   !.price = IntV(5), !.category = Str("Unknown")],
      [Base EXCEPT !.title = Str("B"), !.year = IntV(1800), !.category = Str("Fiction")],
      [Base EXCEPT !.category = Str("FICTION")],
      [Base EXCEPT !.year = Absent],
      [Base EXCEPT !.pages = BigInt] }

RECURSIVE SeqsUpTo(_, _)
SeqsUpTo(S, k) ==
    IF k = 0 THEN {<<>>}
    ELSE SeqsUpTo(S, k - 1)
         \cup {Append(q, x) : q \in {p \in SeqsUpTo(S, k - 1) : Len(p) = k - 1}, x \in S}

\* what FileReadService.read does: it returns a list of entries, or raises
Reads ==
    {Ok(q) : q \in SeqsUpTo(SampleEntries, MaxEntries)} \cup {Raise("OSError", <<>>)}

\* the Books of the converter's round trip
SampleBooks ==
    {Book(Str(t), Str("d"), Str("x"), IntV(y), IntV(p), pr, c) :
        t \in {"A", "B"}, y \in {1900, 2010, 2025}, p \in {1, 100},
        pr \in {Dec(999, 2), Dec(990, 2), Dec(5, 0), DecTiny, DecHuge},
        c \in CategoryNames}

-----------------------------------------------------------------------------
(* The repository and its reports *)

Pending(v) == Raise("pending", v)

\* no validator or converter call was made yet
InitPure ==
    /\ raw = EmptyRecord /\ book = NoBook
    /\ vres = Pending(FALSE) /\ cres = Pending(NoBook) /\ viaToJson = FALSE

\* BookRepository(...): __post_init__ loads, and the object exists when that returned
Init ==
    /\ InitPure
    /\ \E read \in Reads :
        \E loaded \in {load_book(<<>>, read)} :
            /\ loaded.exc = ""
            /\ books = loaded.books
            /\ origin = loaded.kept
            /\ okInput = read.val
    /\ lastOp = "init" /\ status = "ok" /\ failedOn = <<>>
    /\ ret = <<>> /\ console = <<>> /\ written = NoData

LoadBook ==
    \E read \in Reads :
        \E loaded \in {load_book(books, read)} :
            /\ books' = loaded.books
            /\ status' = (IF loaded.exc = "" THEN "ok" ELSE loaded.exc)
            /\ origin' = (IF loaded.exc = "" THEN loaded.kept ELSE origin)
            /\ okInput' = (IF loaded.exc = "" THEN read.val ELSE okInput)
            /\ failedOn' = loaded.on
            /\ ret' = (IF loaded.exc = "" THEN loaded.books ELSE <<>>)
            /\ lastOp' = "load_book"
            /\ console' = <<>> /\ written' = NoData
            /\ UNCHANGED pureVars

GetBooks ==
    /\ ret' = get_books(books)
    /\ lastOp' = "get_books" /\ status' = "ok" /\ failedOn' = <<>>
    /\ console' = <<>> /\ written' = NoData
    /\ UNCHANGED <<books, origin, okInput>>
    /\ UNCHANGED pureVars

ReportOnConsole ==
    /\ console' = get_report_on_console(books)
    /\ lastOp' = "get_report_on_console" /\ status' = "ok" /\ failedOn' = <<>>
    /\ ret' = <<>> /\ written' = NoData
    /\ UNCHANGED <<books, origin, okInput>>
    /\ UNCHANGED pureVars

\* file_write_service.write(file_name, data) returns, or raises
ReportFile ==
    \E write_exc \in {"", "OSError"} :
        /\ written' = (IF write_exc = "" THEN get_report_file(books) ELSE NoData)
        /\ status' = (IF write_exc = "" THEN "ok" ELSE write_exc)
        /\ lastOp' = "get_report_file" /\ failedOn' = <<>>
        /\ ret' = <<>> /\ console' = <<>>
        /\ UNCHANGED <<books, origin, okInput>>
        /\ UNCHANGED pureVars

Next == LoadBook \/ GetBooks \/ ReportOnConsole \/ ReportFile

Spec == Init /\ [][Next]_vars

-----------------------------------------------------------------------------
(* The validator and the converter on one record *)

\* a repository built on an empty file
InitRepo ==
    /\ books = <<>> /\ origin = <<>> /\ okInput = <<>>
    /\ lastOp = "init" /\ status = "ok" /\ failedOn = <<>>
    /\ ret = <<>> /\ console = <<>> /\ written = NoData

InitConv ==
    /\ InitRepo
    /\ vres = Pending(FALSE) /\ cres = Pending(NoBook) /\ viaToJson = FALSE
    /\ \/ /\ book = NoBook
          /\ \E t \in TitleValues, d \in DescValues, a \in AuthorValues,
                y \in YearValues, p \in PagesValues, pr \in PriceValues,
                c \in CategoryTexts :
                /\ Deviations([title |-> t, desc |-> d, author |-> a, year |-> y,
                               pages |-> p, price |-> pr, category |-> c])
                       <= MaxDeviations
                /\ raw = [title |-> t, desc |-> d, author |-> a, year |-> y,
                          pages |-> p, price |-> pr, category |-> c]
       \/ /\ raw = EmptyRecord
          /\ book \in SampleBooks

Validate ==
    /\ vres' = validate(raw)
    /\ UNCHANGED <<raw, book, cres, viaToJson>>
    /\ UNCHANGED repoVars

FromJson ==
    /\ cres' = from_json(raw)
    /\ UNCHANGED <<raw, book, vres, viaToJson>>
    /\ UNCHANGED repoVars

ToJson ==
    /\ book # NoBook /\ ~viaToJson
    /\ raw' = to_json(book)
    /\ viaToJson' = TRUE
    /\ vres' = Pending(FALSE) /\ cres' = Pending(NoBook)
    /\ UNCHANGED book
    /\ UNCHANGED repoVars

NextConv == Validate \/ FromJson \/ ToJson

SpecConv == InitConv /\ [][NextConv]_vars

-----------------------------------------------------------------------------
(* The rules of the validator as the specification words them *)

RequiredFields == {"title", "desc", "author", "year", "pages", "price", "category"}

SixLabels == {"Unknown", "Fiction", "Non-fiction", "Science", "Fantasy", "Self-help"}

\* the key is absent, or its value is empty (empty text, zero, null)
MissingOrEmpty(v) ==
    \/ v.t \in {"absent", "none"}
    \/ v.t = "str" /\ v.s = ""
    \/ v.t \in {"int", "float", "dec"} /\ v.m = "fin" /\ v.n = 0

\* a number greater than zero
NumberAboveZero(v) ==
    /\ v.t \in {"int", "float", "dec"}
    /\ v.m \in {"fin", "huge", "tiny", "inf"}
    /\ v.n > 0

\* rules 2 to 5 of the validator
RulesHold(r) ==
    /\ r.year.t = "int" /\ r.year.m = "fin" /\ 1900 <= r.year.n /\ r.year.n <= 2025
    /\ r.pages.t = "int" /\ NumberAboveZero(r.pages)
    /\ NumberAboveZero(r.price)
    /\ r.category.t = "str" /\ r.category.s \in SixLabels

\* the record breaks none of the rules
RuleAbiding(r) == (\A k \in RequiredFields : ~MissingOrEmpty(r[k])) /\ RulesHold(r)

Validated == vres.exc # "pending"
Converted == cres.exc # "pending"

-----------------------------------------------------------------------------
(* C1 *)

\* C1: whenever one of the seven required fields of the record is absent or holds an
\* empty value, validate returns false, and it does not raise
C1_MissingFieldIsRejected ==
    (Validated /\ \E k \in RequiredFields : MissingOrEmpty(raw[k])) => vres = Ok(FALSE)

-----------------------------------------------------------------------------
(* C2 *)

\* C2: a record that breaks a validation rule never makes load fail (the only entries
\* whose processing raises break no rule), and after a load that completed the
\* collection holds one book for each rule-abiding record of the input and none for
\* the others
C2_InvalidRecordNeverFailsLoad ==
    /\ (lastOp = "load_book" /\ failedOn # <<>>) => RuleAbiding(failedOn[1])
    /\ (lastOp = "load_book" /\ status = "ok") =>
            /\ Len(books) = Len(SelectSeq(okInput, RuleAbiding))
            /\ origin = SelectSeq(okInput, RuleAbiding)

-----------------------------------------------------------------------------
(* C3 *)

ValidateAccepts(r) == validate(r) = Ok(TRUE)

\* from_json of the records validate accepted, in input order
ConvertedAccepted(input) ==
    [i \in DOMAIN SelectSeq(input, ValidateAccepts) |->
        from_json(SelectSeq(input, ValidateAccepts)[i]).val]

\* C3: the collection is exactly from_json(r) for the records r of the last completed
\* load that validate accepted, in input order, duplicates kept, nothing older; load
\* returns it and so does every get
C3_CollectionIsAcceptedInput ==
    /\ books = ConvertedAccepted(okInput)
    /\ (lastOp = "load_book" /\ status = "ok") => ret = ConvertedAccepted(okInput)
    /\ lastOp = "get_books" => ret = ConvertedAccepted(okInput)

\* a load completed on an input holding the same valid record twice and a record
\* that was dropped
C3_Witness ==
    /\ lastOp = "load_book" /\ status = "ok"
    /\ Len(okInput) = MaxEntries
    /\ \/ Len(books) = 2 /\ books[1] = books[2]
       \/ Len(books) = 1 /\ ~RuleAbiding(okInput[1])

-----------------------------------------------------------------------------
(* C4 *)

\* C4: a load that fails (the reader raises, or the processing of an entry raises)
\* leaves the collection as it was when the load started
C4_FailedLoadKeepsCollection ==
    [][(lastOp' = "load_book" /\ status' # "ok") => books' = books]_vars

\* the processing of an entry raised while the repository held books
C4_Witness ==
    lastOp = "load_book" /\ status = "KeyError" /\ failedOn # <<>> /\ books # <<>>

-----------------------------------------------------------------------------
(* C5 *)

\* C5: for a record with all seven fields present and non-empty, validate returns
\* true exactly when year is an integer in 1900..2025, pages an integer above 0, price
\* a number above 0 and category one of the six labels, and false otherwise
C5_ValidateDecidesByRules ==
    (Validated /\ \A k \in RequiredFields : ~MissingOrEmpty(raw[k]))
        => vres = Ok(RulesHold(raw))

-----------------------------------------------------------------------------
(* C6 *)

\* C6: from_json(to_json(b)) is a Book equal to b in title, desc, author, year, pages
\* and category (price aside), and to_json emits the category as its label
C6_RoundTrip ==
    (viaToJson /\ Converted) =>
        /\ cres.exc = ""
        /\ cres.val.title = book.title
        /\ cres.val.desc = book.desc
        /\ cres.val.author = book.author
        /\ cres.val.year = book.year
        /\ cres.val.pages = book.pages
        /\ cres.val.category = book.category
        /\ raw.category.t = "str" /\ raw.category.s \in SixLabels
        /\ raw.category.s = "Unknown" <=> book.category = "UNKNOWN"

\* the round trip of a Book of category UNKNOWN whose price came back in another
\* precision
C6_Witness ==
    /\ viaToJson /\ cres.exc = ""
    /\ book.category = "UNKNOWN" /\ cres.val.category = "UNKNOWN"
    /\ book.price = Dec(990, 2) /\ cres.val.price = Dec(99, 1)

-----------------------------------------------------------------------------
(* C7 *)

\* C7: every book get_report_file lists under a category is in the raw form, the
\* one to_json gives: year and pages integers, price a number, category its label
C7_ReportBooksInRawForm ==
    (lastOp = "get_report_file" /\ status = "ok") =>
        \A i \in DOMAIN written.categories :
            \A j \in DOMAIN written.categories[i].value :
                LET listed == SelectSeq(books, LAMBDA b : b.category = BookCategory[i])
                    entry == written.categories[i].value[j]
                IN  /\ entry = to_json(listed[j])
                    /\ entry.year.t = "int" /\ entry.pages.t = "int"
                    /\ entry.price.t \in {"int", "float", "dec"}
                    /\ entry.category.s \in SixLabels

-----------------------------------------------------------------------------
(* C8 *)

\* C8: from_json of a record whose category text is none of the six labels does not
\* fail where the same record with a recognised label converts: it returns that
\* Book with category UNKNOWN
C8_UnrecognisedCategoryIsUnknown ==
    (/\ Converted /\ ~viaToJson
     /\ raw.category.t = "str" /\ raw.category.s \notin SixLabels
     /\ from_json([raw EXCEPT !.category = Str("Fiction")]).exc = "")
        => /\ cres.exc = ""
           /\ cres.val.category = "UNKNOWN"
           /\ cres.val = [from_json([raw EXCEPT !.category = Str("Fiction")]).val
                             EXCEPT !.category = "UNKNOWN"]

\* the record of category "Mystery" was converted
C8_Witness ==
    /\ Converted /\ raw = [Base EXCEPT !.category = Str("Mystery")]
    /\ cres.exc = "" /\ cres.val.category = "UNKNOWN" /\ cres.val.title = Str("A")

-----------------------------------------------------------------------------
(* C9 *)

InYears(lo, hi) ==
    Cardinality({i \in DOMAIN books : lo <= books[i].year.n /\ books[i].year.n <= hi})

\* C9: both reports go through the start years 2000, 2005, 2010, 2015, 2020 in that
\* order; the console report prints the count of the books with year in
\* [start, start+10], the file report maps "<start>-<start+9>" to the count of the
\* books with year in [start, start+9]
C9_ReportWindows ==
    /\ lastOp = "get_report_on_console" =>
        /\ Len(console) >= 5
        /\ SubSeq(console, Len(console) - 4, Len(console)) =
            << "Years : 2000 and 2010 : " \o ToString(InYears(2000, 2010)),
               "Years : 2005 and 2015 : " \o ToString(InYears(2005, 2015)),
               "Years : 2010 and 2020 : " \o ToString(InYears(2010, 2020)),
               "Years : 2015 and 2025 : " \o ToString(InYears(2015, 2025)),
               "Years : 2020 and 2030 : " \o ToString(InYears(2020, 2030)) >>
    /\ (lastOp = "get_report_file" /\ status = "ok") =>
        written.years =
            << [key |-> "2000-2009", value |-> InYears(2000, 2009)],
               [key |-> "2005-2014", value |-> InYears(2005, 2014)],
               [key |-> "2010-2019", value |-> InYears(2010, 2019)],
               [key |-> "2015-2024", value |-> InYears(2015, 2024)],
               [key |-> "2020-2029", value |-> InYears(2020, 2029)] >>

\* the file report of a collection holding a book of 2010 and a book of 2020: the
\* windows ending in 2009 and 2019 leave them out
C9_Witness ==
    /\ lastOp = "get_report_file" /\ status = "ok"
    /\ Len(books) = 2 /\ books[1].year = IntV(2010) /\ books[2].year = IntV(2020)
    /\ written.years[1].value = 0 /\ written.years[2].value = 1
    /\ written.years[3].value = 1 /\ written.years[4].value = 1
    /\ written.years[5].value = 1

-----------------------------------------------------------------------------
(* C10 *)

\* C10: every Book of the collection has 1900 <= year <= 2025, pages > 0, price > 0,
\* and its category is the member whose label is the category text of the entry it
\* was converted from (UNKNOWN only for the text "Unknown")
C10_CollectionIsValid ==
    /\ Len(origin) = Len(books)
    /\ \A i \in DOMAIN books :
        /\ books[i].year.t = "int" /\ books[i].year.m = "fin"
        /\ 1900 <= books[i].year.n /\ books[i].year.n <= 2025
        /\ books[i].pages.t = "int" /\ books[i].pages.m = "fin" /\ books[i].pages.n > 0
        /\ NumberAboveZero(books[i].price)
        /\ origin[i].category.t = "str" /\ origin[i].category.s \in SixLabels
        /\ books[i].category \in CategoryNames
        /\ CategoryValue(books[i].category) = origin[i].category.s
        /\ books[i].category = "UNKNOWN" <=> origin[i].category.s = "Unknown"

\* a load failed on a repository that holds a book of category UNKNOWN
C10_Witness ==
    /\ lastOp = "load_book" /\ status # "ok"
    /\ \E i \in DOMAIN books :
        books[i].category = "UNKNOWN" /\ origin[i].category = Str("Unknown")

====
